---- MODULE Spec2Model ----
(***************************************************************************)
(* LLFileSystem (indra/llfilesystem/llfilesystem.cpp): a session object    *)
(* with a cursor over a byte store that the disk cache resolves from an    *)
(* (id, type) pair.  Every call opens the store, acts and closes it.       *)
(*                                                                         *)
(* An identity stands for the pair (mFileID, mFileType); the disk cache's  *)
(* metaDataToFilepath is a one-to-one map from identities to file names,   *)
(* so the store is a function of the identity.                             *)
(***************************************************************************)
EXTENDS Integers, Sequences, FiniteSets, TLC

\* ------------------------------------------------------------- bounds
\* Bytes the stores hold in total: a write that would exceed it is not taken.
MaxBytes == 2
\* FILE handles the model lets calls leave open.
MaxLeak == 1

\* ---------------------------------------------------------- constants
READ == 1
WRITE == 2
READ_WRITE == 3
APPEND == 6
INT_MAX == 2147483647
INT_MIN == -INT_MAX - 1

Modes == {READ, WRITE, READ_WRITE, APPEND}
Bytes == {0, 1}
NoId == "-"
NoSession == "-"

Min(a, b) == IF a < b THEN a ELSE b
Max(a, b) == IF a > b THEN a ELSE b

\* Every byte sequence of length at most n.
BytesUpTo(n) == UNION {[1..k -> Bytes] : k \in 0..n}

\* ------------------------------------------------------------- state
VARIABLES
    store,    \* identity -> the file at its resolved path
    sess,     \* session -> mFileID/mFileType, mMode, mPosition, mBytesRead
    handles,  \* FILE handles a call opened and did not close
    lastWrite,\* the last truncating write whose store nothing has changed since
    last      \* the call that just returned: what it was given and what it gave

vars == <<store, sess, handles, lastWrite, last>>

Ids == DOMAIN store
Sessions == DOMAIN sess

NoFile == [present |-> FALSE, data |-> <<>>]
File(d) == [present |-> TRUE, data |-> d]

NoObject == [live |-> FALSE, id |-> NoId, mode |-> READ, pos |-> 0, bytesRead |-> 0]

\* op: the call; s: its session; id, to: the identities of a static call or a
\* rename; ret: its result; bytes: the buffer (read: as filled, write: as given);
\* n: read's byte count, seek's offset; origin: seek's origin; pos0: the cursor a
\* write or a seek started from; had: the store a
\* remove addressed, or a rename's destination, was present; moved: LLFile::rename
\* returned 0; touched: the file the call passed to
\* LLDiskCache::updateFileAccessTime.
NoCall == [op |-> "none", s |-> NoSession, id |-> NoId, to |-> NoId,
           ret |-> FALSE, bytes |-> <<>>, n |-> 0, origin |-> 0, pos0 |-> 0,
           had |-> FALSE,
           moved |-> FALSE, touched |-> NoId]

\* lastWrite before any truncating write, and in the specifications that keep
\* no record of it.
NoWrite == [valid |-> FALSE, id |-> NoId, bytes |-> <<>>]
Untracked == [valid |-> FALSE, id |-> "untracked", bytes |-> <<>>]

\* ------------------------------------------------------- the C library
\* A slip: "r+b" truncates as "w+b" does.
fopenTruncating(f, how) ==
    CASE how = "rb" ->
            [ok |-> f.present, data |-> f.data, pos |-> 0, app |-> FALSE]
      [] how = "r+b" ->
            [ok |-> f.present, data |-> <<>>, pos |-> 0, app |-> FALSE]
      [] how = "wb" ->
            [ok |-> TRUE, data |-> <<>>, pos |-> 0, app |-> FALSE]
      [] how = "a+b" ->
            [ok |-> TRUE, data |-> f.data, pos |-> 0, app |-> TRUE]

\* fopen: "rb" and "r+b" need the file; "wb" creates or truncates it;
\* "a+b" creates it when missing and forces every write to its end.
fopen(f, how) ==
    CASE how \in {"rb", "r+b"} ->
            [ok |-> f.present, data |-> f.data, pos |-> 0, app |-> FALSE]
      [] how = "wb" ->
            [ok |-> TRUE, data |-> <<>>, pos |-> 0, app |-> FALSE]
      [] how = "a+b" ->
            [ok |-> TRUE, data |-> f.data, pos |-> 0, app |-> TRUE]

\* fseek(file, p, SEEK_SET): a position past the end is allowed.
fseek(h, p) == [h EXCEPT !.pos = p]

\* fread(buffer, 1, n, file): the bytes from the position to the end, at most n.
freadCount(h, n) == Min(n, Max(Len(h.data) - h.pos, 0))
fread(h, n) == SubSeq(h.data, h.pos + 1, h.pos + freadCount(h, n))

\* The bytes of a file after b is written at offset p: a gap between the old
\* end and p reads as zero bytes.
WriteAt(d, p, b) ==
    IF Len(b) = 0 THEN d
    ELSE LET padded == d \o [i \in 1..Max(p - Len(d), 0) |-> 0]
         IN  SubSeq(padded, 1, p) \o b \o SubSeq(padded, p + Len(b) + 1, Len(padded))

\* A slip: an append-mode stream writes at its position, as the others do.
fwriteAtPosition(h, b) ==
    [h EXCEPT !.data = WriteAt(h.data, h.pos, b), !.pos = h.pos + Len(b)]

\* fwrite(buffer, 1, n, file): at the end in append mode, at the position otherwise.
fwrite(h, b) ==
    IF h.app
    THEN [h EXCEPT !.data = h.data \o b, !.pos = Len(h.data) + Len(b)]
    ELSE [h EXCEPT !.data = WriteAt(h.data, h.pos, b), !.pos = h.pos + Len(b)]

ftell(h) == h.pos

\* fclose: the file holds what the stream wrote.
fclose(h) == File(h.data)

\* LLFile::stat
stat(f) ==
    IF f.present
    THEN [rc |-> 0, isreg |-> TRUE, st_size |-> Len(f.data)]
    ELSE [rc |-> -1, isreg |-> FALSE, st_size |-> 0]

\* gDirUtilp->fileExists
fileExists(f) == f.present

\* ------------------------------------------------- static operations
\* A slip: an empty file counts as existing (st_size >= 0).
getExistsOfEmpty(fs, id) ==
    LET file_stat == stat(fs[id])
    IN  IF file_stat.rc = 0
        THEN file_stat.isreg /\ file_stat.st_size >= 0
        ELSE FALSE

\* static LLFileSystem::getExists(file_id, file_type)
getExists(fs, id) ==
    LET file_stat == stat(fs[id])
    IN  IF file_stat.rc = 0
        THEN file_stat.isreg /\ file_stat.st_size > 0
        ELSE FALSE

\* static LLFileSystem::getFileSize(file_id, file_type)
getFileSize(fs, id) ==
    LET file_stat == stat(fs[id])
    IN  IF file_stat.rc = 0 THEN file_stat.st_size ELSE 0

\* LLFile::remove under an OS that lets the deletion happen or not (osOk):
\* its result, 0 for success, and the files it leaves.
LLFile_remove_rc(fs, id, osOk) == IF fs[id].present /\ osOk THEN 0 ELSE -1

\* A slip: LLFile::remove deletes nothing.
LLFile_removeNothing(fs, id, osOk) == fs

LLFile_remove(fs, id, osOk) ==
    IF LLFile_remove_rc(fs, id, osOk) = 0 THEN [fs EXCEPT ![id] = NoFile] ELSE fs

\* LLFile::rename under an OS that lets the rename happen or not (osOk): it
\* fails when the source is missing.
LLFile_rename_rc(fs, old, new, osOk) == IF fs[old].present /\ osOk THEN 0 ELSE -1

\* A slip: the rename leaves the source where it was.
LLFile_renameCopies(fs, old, new, osOk) ==
    IF LLFile_rename_rc(fs, old, new, osOk) = 0 /\ old # new
    THEN [fs EXCEPT ![new] = fs[old]]
    ELSE fs

LLFile_rename(fs, old, new, osOk) ==
    IF LLFile_rename_rc(fs, old, new, osOk) = 0 /\ old # new
    THEN [fs EXCEPT ![new] = fs[old], ![old] = NoFile]
    ELSE fs

\* static LLFileSystem::removeFile(file_id, file_type, suppress_error)
removeFile(fs, id, osOk) ==
    [fs |-> LLFile_remove(fs, id, osOk), ret |-> TRUE]

\* A slip: the commented-out "return FALSE" of a failed LLFile::rename is live.
renameFileReportsFailure(fs, old, new, rmOk, mvOk) ==
    LET removed == removeFile(fs, new, rmOk).fs
    IN  [fs |-> LLFile_rename(removed, old, new, mvOk),
         moved |-> LLFile_rename_rc(removed, old, new, mvOk) = 0,
         ret |-> LLFile_rename_rc(removed, old, new, mvOk) = 0]

\* A slip: the destination is removed only when there is a source to rename.
renameFileChecksSource(fs, old, new, rmOk, mvOk) ==
    LET removed == IF fs[old].present THEN removeFile(fs, new, rmOk).fs ELSE fs
    IN  [fs |-> LLFile_rename(removed, old, new, mvOk),
         moved |-> LLFile_rename_rc(removed, old, new, mvOk) = 0,
         ret |-> TRUE]

\* static LLFileSystem::renameFile(old_file_id, old_file_type, new_file_id,
\* new_file_type): the destination is removed, then the source renamed.
renameFile(fs, old, new, rmOk, mvOk) ==
    LET removed == removeFile(fs, new, rmOk).fs
    IN  [fs |-> LLFile_rename(removed, old, new, mvOk),
         moved |-> LLFile_rename_rc(removed, old, new, mvOk) = 0,
         ret |-> TRUE]

\* ------------------------------------------------------------ session
getSize(s) == getFileSize(store, sess[s].id)
tell(s) == sess[s].pos
\* A slip: the end of the store itself is not the end of file.
eofStrict(s) == sess[s].pos > getSize(s)
eof(s) == sess[s].pos >= getSize(s)
getLastBytesRead(s) == sess[s].bytesRead

Init ==
    /\ store = [i \in {"A", "B"} |-> NoFile]
    /\ sess = [s \in {"s1"} |-> NoObject]
    /\ handles = 0
    /\ lastWrite = Untracked
    /\ last = NoCall

\* The bytes all the stores of fs hold.
RECURSIVE SumLen(_, _)
SumLen(fs, ids) ==
    IF ids = {} THEN 0
    ELSE LET i == CHOOSE x \in ids : TRUE
         IN  Len(fs[i].data) + SumLen(fs, ids \ {i})

TotalBytes(fs) == SumLen(fs, DOMAIN fs)

\* lastWrite after a call that leaves the stores as fs and, when it is a
\* successful truncating write, wrote w: the write stands while the store it
\* wrote is as it left it.
NextWrite(fs, w) ==
    IF lastWrite = Untracked THEN Untracked
    ELSE IF w.valid THEN w
    ELSE IF lastWrite.valid /\ fs[lastWrite.id] = store[lastWrite.id] THEN lastWrite
    ELSE NoWrite

\* A slip: the constructor updates the access time whatever the mode.
constructorTouchAnyMode(fs, id, mode) ==
    LET exists == fileExists(fs[id])
    IN  IF exists THEN id ELSE NoId

\* LLFileSystem::LLFileSystem(file_id, file_type, mode): the file whose access
\* time the constructor has the disk cache update, NoId when none.
constructorTouch(fs, id, mode) ==
    IF mode = READ
    THEN LET exists == fileExists(fs[id])
         IN  IF exists THEN id ELSE NoId
    ELSE NoId

Construct(s, id, mode) ==
    /\ sess' = [sess EXCEPT ![s] =
            [live |-> TRUE, id |-> id, mode |-> mode, pos |-> 0, bytesRead |-> 0]]
    /\ last' = [NoCall EXCEPT !.op = "construct", !.s = s, !.ret = TRUE,
                              !.touched = constructorTouch(store, id, mode)]
    /\ UNCHANGED <<store, handles, lastWrite>>

\* A slip: read succeeds only when it obtained every byte asked for (the check
\* the source's comment calls probably correct).
readExact(me, f, bytes, fseekOk) ==
    LET file == fopen(f, "rb")
    IN  IF file.ok /\ fseekOk
        THEN LET at == fseek(file, me.pos)
                 mBytesRead == freadCount(at, bytes)
             IN  [pos |-> me.pos + mBytesRead, bytesRead |-> mBytesRead,
                  buffer |-> fread(at, bytes), success |-> mBytesRead = bytes,
                  leak |-> 0]
        ELSE [pos |-> me.pos, bytesRead |-> me.bytesRead, buffer |-> <<>>,
              success |-> FALSE, leak |-> IF file.ok THEN 1 ELSE 0]

\* A slip: a read that could not open the store still advances the cursor by
\* the bytes asked for.
readAdvancesUnopened(me, f, bytes, fseekOk) ==
    LET file == fopen(f, "rb")
    IN  IF file.ok /\ fseekOk
        THEN LET at == fseek(file, me.pos)
                 mBytesRead == freadCount(at, bytes)
             IN  [pos |-> me.pos + mBytesRead, bytesRead |-> mBytesRead,
                  buffer |-> fread(at, bytes), success |-> mBytesRead # 0,
                  leak |-> 0]
        ELSE [pos |-> me.pos + bytes, bytesRead |-> me.bytesRead, buffer |-> <<>>,
              success |-> FALSE, leak |-> IF file.ok THEN 1 ELSE 0]

\* LLFileSystem::read(buffer, bytes): what the call leaves in the session and
\* in the buffer.  fseekOk is fseek's outcome; a failed fseek skips fclose.
read(me, f, bytes, fseekOk) ==
    LET file == fopen(f, "rb")
    IN  IF file.ok /\ fseekOk
        THEN LET at == fseek(file, me.pos)
                 mBytesRead == freadCount(at, bytes)
             IN  [pos |-> me.pos + mBytesRead, bytesRead |-> mBytesRead,
                  buffer |-> fread(at, bytes), success |-> mBytesRead # 0,
                  leak |-> 0]
        ELSE [pos |-> me.pos, bytesRead |-> me.bytesRead, buffer |-> <<>>,
              success |-> FALSE, leak |-> IF file.ok THEN 1 ELSE 0]

Read(s, bytes, fseekOk) ==
    LET me == sess[s]
        r == read(me, store[me.id], bytes, fseekOk)
    IN  /\ me.live
        /\ handles + r.leak <= MaxLeak
        /\ sess' = [sess EXCEPT ![s].pos = r.pos, ![s].bytesRead = r.bytesRead]
        /\ handles' = handles + r.leak
        /\ last' = [NoCall EXCEPT !.op = "read", !.s = s, !.ret = r.success,
                                  !.bytes = r.buffer, !.n = bytes]
        /\ UNCHANGED <<store, lastWrite>>

\* One write-tell-close sequence of LLFileSystem::write on an opened stream.
writeThrough(ofs, buffer) ==
    LET done == fwrite(ofs, buffer)
        bytes_written == Len(buffer)
    IN  [file |-> fclose(done), pos |-> ftell(done),
         success |-> bytes_written = Len(buffer), leak |-> 0]

\* A slip: the default branch opens "a+b" as the APPEND branch does.
writeDefaultAppends(me, f, buffer, fseekOk) ==
    IF me.mode = READ_WRITE
    THEN LET ofs == fopen(f, "r+b")
         IN  IF ofs.ok
             THEN IF fseekOk
                  THEN writeThrough(fseek(ofs, me.pos), buffer)
                  ELSE [file |-> f, pos |-> me.pos, success |-> FALSE, leak |-> 1]
             ELSE writeThrough(fopen(f, "wb"), buffer)
    ELSE writeThrough(fopen(f, "a+b"), buffer)

\* A slip: the default branch updates the store in place, as the READ_WRITE
\* branch does.
writeDefaultInPlace(me, f, buffer, fseekOk) ==
    IF me.mode = APPEND
    THEN writeThrough(fopen(f, "a+b"), buffer)
    ELSE LET ofs == fopen(f, "r+b")
         IN  IF ofs.ok
             THEN IF fseekOk
                  THEN writeThrough(fseek(ofs, me.pos), buffer)
                  ELSE [file |-> f, pos |-> me.pos, success |-> FALSE, leak |-> 1]
             ELSE writeThrough(fopen(f, "wb"), buffer)

\* LLFileSystem::write(buffer, bytes): the file, the cursor and the result.
write(me, f, buffer, fseekOk) ==
    IF me.mode = APPEND
    THEN writeThrough(fopen(f, "a+b"), buffer)
    ELSE IF me.mode = READ_WRITE
    THEN LET ofs == fopen(f, "r+b")
         IN  IF ofs.ok
             THEN IF fseekOk
                  THEN writeThrough(fseek(ofs, me.pos), buffer)
                  ELSE [file |-> f, pos |-> me.pos, success |-> FALSE, leak |-> 1]
             ELSE writeThrough(fopen(f, "wb"), buffer)
    ELSE writeThrough(fopen(f, "wb"), buffer)

Write(s, buffer, fseekOk) ==
    LET me == sess[s]
        w == write(me, store[me.id], buffer, fseekOk)
        fs == [store EXCEPT ![me.id] = w.file]
    IN  /\ me.live
        /\ TotalBytes(fs) <= MaxBytes
        /\ handles + w.leak <= MaxLeak
        /\ store' = fs
        /\ sess' = [sess EXCEPT ![s].pos = w.pos]
        /\ handles' = handles + w.leak
        /\ lastWrite' = NextWrite(fs, [valid |-> me.mode \notin {APPEND, READ_WRITE} /\ w.success,
                                        id |-> me.id, bytes |-> buffer])
        /\ last' = [NoCall EXCEPT !.op = "write", !.s = s, !.ret = w.success,
                                  !.bytes = buffer, !.pos0 = me.pos]

\* S32 origin + offset.  A sum outside the S32 range is undefined behaviour:
\* the build either wraps it around or carries the exact sum into the
\* comparisons, where it acts as the end of the range it left.
S32Sums(a, b) ==
    IF b > 0 /\ a > INT_MAX - b
    THEN {(a + INT_MIN) + (b + INT_MIN), INT_MAX}
    ELSE IF b < 0 /\ a < INT_MIN - b
    THEN {(a - INT_MIN) + (b - INT_MIN), INT_MIN}
    ELSE {a + b}

\* LLFileSystem::seek(offset, origin): the base the offset is added to.
seekBase(me, origin) == IF -1 = origin THEN me.pos ELSE origin

\* LLFileSystem::seek(offset, origin) from the computed new_pos on.
seek(new_pos, size) ==
    IF new_pos > size
    THEN [pos |-> size, ret |-> FALSE]
    ELSE IF new_pos < 0
    THEN [pos |-> 0, ret |-> FALSE]
    ELSE [pos |-> new_pos, ret |-> TRUE]

Seek(s, offset, origin) ==
    LET me == sess[s]
    IN  /\ me.live
        /\ \E new_pos \in S32Sums(seekBase(me, origin), offset) :
             LET r == seek(new_pos, getSize(s))
             IN  /\ sess' = [sess EXCEPT ![s].pos = r.pos]
                 /\ last' = [NoCall EXCEPT !.op = "seek", !.s = s, !.ret = r.ret,
                                           !.n = offset, !.origin = origin,
                                           !.pos0 = me.pos]
        /\ UNCHANGED <<store, handles, lastWrite>>

RemoveFile(id, osOk) ==
    LET r == removeFile(store, id, osOk)
    IN  /\ store' = r.fs
        /\ lastWrite' = NextWrite(r.fs, NoWrite)
        /\ last' = [NoCall EXCEPT !.op = "removeFile", !.id = id, !.ret = r.ret,
                                  !.had = store[id].present]
        /\ UNCHANGED <<sess, handles>>

RenameFile(old, new, rmOk, mvOk) ==
    LET r == renameFile(store, old, new, rmOk, mvOk)
    IN  /\ store' = r.fs
        /\ lastWrite' = NextWrite(r.fs, NoWrite)
        /\ last' = [NoCall EXCEPT !.op = "renameFile", !.id = old, !.to = new,
                                  !.ret = r.ret, !.had = store[new].present,
                                  !.moved = r.moved]
        /\ UNCHANGED <<sess, handles>>

\* LLFileSystem::rename(new_id, new_type): the session is bound to the new
\* identity whatever renameFile did.
rename(me, fs, new, rmOk, mvOk) ==
    LET r == renameFile(fs, me.id, new, rmOk, mvOk)
    IN  [fs |-> r.fs, me |-> [me EXCEPT !.id = new], moved |-> r.moved, ret |-> TRUE]

Rename(s, new, rmOk, mvOk) ==
    LET me == sess[s]
        r == rename(me, store, new, rmOk, mvOk)
    IN  /\ me.live
        /\ store' = r.fs
        /\ sess' = [sess EXCEPT ![s] = r.me]
        /\ lastWrite' = NextWrite(r.fs, NoWrite)
        /\ last' = [NoCall EXCEPT !.op = "rename", !.s = s, !.id = me.id, !.to = new,
                                  !.ret = r.ret, !.had = store[new].present,
                                  !.moved = r.moved]
        /\ UNCHANGED handles

\* LLFileSystem::remove()
remove(me, fs, osOk) ==
    [fs |-> removeFile(fs, me.id, osOk).fs, ret |-> TRUE]

Remove(s, osOk) ==
    LET me == sess[s]
        r == remove(me, store, osOk)
    IN  /\ me.live
        /\ store' = r.fs
        /\ lastWrite' = NextWrite(r.fs, NoWrite)
        /\ last' = [NoCall EXCEPT !.op = "remove", !.s = s, !.id = me.id,
                                  !.ret = r.ret, !.had = store[me.id].present]
        /\ UNCHANGED <<sess, handles>>

\* static LLFileSystem::getExists(file_id, file_type)
GetExists(id) ==
    /\ last' = [NoCall EXCEPT !.op = "getExists", !.id = id,
                              !.ret = getExists(store, id)]
    /\ UNCHANGED <<store, sess, handles, lastWrite>>

\* static LLFileSystem::getFileSize(file_id, file_type)
GetFileSize(id) ==
    /\ last' = [NoCall EXCEPT !.op = "getFileSize", !.id = id,
                              !.n = getFileSize(store, id), !.ret = TRUE]
    /\ UNCHANGED <<store, sess, handles, lastWrite>>

\* LLFileSystem::getSize()
GetSize(s) ==
    /\ sess[s].live
    /\ last' = [NoCall EXCEPT !.op = "getSize", !.s = s, !.n = getSize(s), !.ret = TRUE]
    /\ UNCHANGED <<store, sess, handles, lastWrite>>

\* LLFileSystem::eof()
Eof(s) ==
    /\ sess[s].live
    /\ last' = [NoCall EXCEPT !.op = "eof", !.s = s, !.ret = eof(s)]
    /\ UNCHANGED <<store, sess, handles, lastWrite>>

\* ------------------------------------------------------------- inputs
ReadSizes == 0..(MaxBytes + 1)
Buffers == BytesUpTo(MaxBytes)
Offsets == (-1..(MaxBytes + 1)) \cup {INT_MAX}
Origins == {-1, 0}

\* One session over two identities, and every call it can make.  The C library
\* and the OS never fail an open, a positioning or a write; the OS may fail a
\* deletion or a rename.
Next ==
    \/ \E s \in Sessions, id \in Ids, mode \in Modes : Construct(s, id, mode)
    \/ \E s \in Sessions, bytes \in ReadSizes : Read(s, bytes, TRUE)
    \/ \E s \in Sessions, buffer \in Buffers : Write(s, buffer, TRUE)
    \/ \E s \in Sessions, offset \in Offsets, origin \in Origins : Seek(s, offset, origin)
    \/ \E s \in Sessions, new \in Ids, rmOk \in BOOLEAN, mvOk \in BOOLEAN :
          Rename(s, new, rmOk, mvOk)
    \/ \E s \in Sessions, osOk \in BOOLEAN : Remove(s, osOk)
    \/ \E id \in Ids : GetExists(id)
    \/ \E s \in Sessions : GetSize(s)
    \/ \E s \in Sessions : Eof(s)

Spec == Init /\ [][Next]_vars

\* The round trips: a session's constructions, reads, writes, seeks and
\* removals, with a record of the last truncating write.
InitRoundTrip ==
    /\ store = [i \in {"A", "B"} |-> NoFile]
    /\ sess = [s \in {"s1"} |-> NoObject]
    /\ handles = 0
    /\ lastWrite = NoWrite
    /\ last = NoCall

NextRoundTrip ==
    \/ \E s \in Sessions, id \in Ids, mode \in Modes : Construct(s, id, mode)
    \/ \E s \in Sessions, bytes \in ReadSizes : Read(s, bytes, TRUE)
    \/ \E s \in Sessions, buffer \in Buffers : Write(s, buffer, TRUE)
    \/ \E s \in Sessions, offset \in Offsets, origin \in Origins : Seek(s, offset, origin)
    \/ \E s \in Sessions, osOk \in BOOLEAN : Remove(s, osOk)

SpecRoundTrip == InitRoundTrip /\ [][NextRoundTrip]_vars

\* The identity-keyed operations over three identities, whose stores a
\* truncating session fills.
InitStatic ==
    /\ store = [i \in {"A", "B", "C"} |-> NoFile]
    /\ sess = [s \in {"s1"} |-> NoObject]
    /\ handles = 0
    /\ lastWrite = Untracked
    /\ last = NoCall

NextStatic ==
    \/ \E s \in Sessions, id \in Ids : Construct(s, id, WRITE)
    \/ \E s \in Sessions, buffer \in Buffers : Write(s, buffer, TRUE)
    \/ \E id \in Ids, osOk \in BOOLEAN : RemoveFile(id, osOk)
    \/ \E old \in Ids, new \in Ids, rmOk \in BOOLEAN, mvOk \in BOOLEAN :
          RenameFile(old, new, rmOk, mvOk)
    \/ \E s \in Sessions, new \in Ids, rmOk \in BOOLEAN, mvOk \in BOOLEAN :
          Rename(s, new, rmOk, mvOk)
    \/ \E s \in Sessions, osOk \in BOOLEAN : Remove(s, osOk)
    \/ \E id \in Ids : GetExists(id)
    \/ \E id \in Ids : GetFileSize(id)

SpecStatic == InitStatic /\ [][NextStatic]_vars

\* A session over one identity under a C library whose fseek may fail: its
\* constructions, reads, writes and seeks.
InitFault ==
    /\ store = [i \in {"A"} |-> NoFile]
    /\ sess = [s \in {"s1"} |-> NoObject]
    /\ handles = 0
    /\ lastWrite = Untracked
    /\ last = NoCall

NextFault ==
    \/ \E s \in Sessions, id \in Ids, mode \in Modes : Construct(s, id, mode)
    \/ \E s \in Sessions, bytes \in ReadSizes, fseekOk \in BOOLEAN : Read(s, bytes, fseekOk)
    \/ \E s \in Sessions, buffer \in Buffers, fseekOk \in BOOLEAN : Write(s, buffer, fseekOk)
    \/ \E s \in Sessions, offset \in Offsets, origin \in Origins : Seek(s, offset, origin)

SpecFault == InitFault /\ [][NextFault]_vars

\* Two sessions over one identity, their calls taken one at a time in any
\* order: constructions, writes, seeks and end-of-file queries.
InitShared ==
    /\ store = [i \in {"A"} |-> NoFile]
    /\ sess = [s \in {"s1", "s2"} |-> NoObject]
    /\ handles = 0
    /\ lastWrite = Untracked
    /\ last = NoCall

NextShared ==
    \/ \E s \in Sessions, id \in Ids, mode \in Modes : Construct(s, id, mode)
    \/ \E s \in Sessions, buffer \in Buffers : Write(s, buffer, TRUE)
    \/ \E s \in Sessions, offset \in Offsets, origin \in Origins : Seek(s, offset, origin)
    \/ \E s \in Sessions : Eof(s)

SpecShared == InitShared /\ [][NextShared]_vars

\* ------------------------------------------- overlapping APPEND writes
\* Two APPEND sessions bound to one identity whose write calls run at the same
\* time: nothing in LLFileSystem::write serialises them, so the four library
\* calls of its APPEND branch (fopen, fwrite, ftell, fclose) are steps of
\* their own and the steps of the two calls come in any order.  A session
\* inside a call carries its stream in the field ofs.

\* No stream: the session is not inside a write call.
NoStream == [stage |-> "none", buffer |-> <<>>, landed |-> FALSE, base |-> <<>>, end |-> 0]

\* A slip: the bytes of an append-mode stream land at the offset that was the
\* end of the file when the stream was opened.
appendLandAtOffset(d, at, b) == WriteAt(d, at, b)

\* The file after the bytes b of an append-mode stream reach it: at the end
\* the file has at that moment, whatever end (at) the stream last knew.
appendLand(d, at, b) == d \o b

\* The bytes the streams of the sessions ss hold and have not yet handed to
\* the file.
RECURSIVE SumPending(_)
SumPending(ss) ==
    IF ss = {} THEN 0
    ELSE LET s == CHOOSE x \in ss : TRUE
             mine == IF sess[s].ofs.stage # "none" /\ ~sess[s].ofs.landed
                     THEN Len(sess[s].ofs.buffer) ELSE 0
         IN  mine + SumPending(ss \ {s})

InitOverlap ==
    /\ store \in {[i \in {"A"} |-> NoFile], [i \in {"A"} |-> File(<<1>>)]}
    /\ sess = [s \in {"s1", "s2"} |->
                 [live |-> TRUE, id |-> "A", mode |-> APPEND, pos |-> 0,
                  bytesRead |-> 0, ofs |-> NoStream]]
    /\ handles = 0
    /\ lastWrite = Untracked
    /\ last = NoCall

\* LLFile::fopen(filename, "a+b"): the file exists from here on.
AppendFopen(s, buffer) ==
    LET me == sess[s]
        ofs == fopen(store[me.id], "a+b")
    IN  /\ me.live /\ me.mode = APPEND
        /\ me.ofs.stage = "none"
        /\ Len(store[me.id].data) + SumPending(Sessions) + Len(buffer) <= MaxBytes
        /\ ofs.ok
        /\ store' = [store EXCEPT ![me.id] = File(ofs.data)]
        /\ sess' = [sess EXCEPT ![s].ofs =
                [stage |-> "opened", buffer |-> buffer, landed |-> FALSE,
                 base |-> ofs.data, end |-> Len(ofs.data)]]
        /\ last' = [NoCall EXCEPT !.op = "write:fopen", !.s = s, !.bytes = buffer]
        /\ UNCHANGED <<handles, lastWrite>>

\* fwrite(buffer, 1, bytes, ofs): the library hands the bytes to the file at
\* once (through) or keeps them in the stream until fclose.
AppendFwrite(s, through) ==
    LET me == sess[s]
        d == store[me.id].data
    IN  /\ me.ofs.stage = "opened"
        /\ IF through
           THEN /\ store' = [store EXCEPT ![me.id] =
                                File(appendLand(d, me.ofs.end, me.ofs.buffer))]
                /\ sess' = [sess EXCEPT ![s].ofs.stage = "written",
                                         ![s].ofs.landed = TRUE,
                                         ![s].ofs.end = Len(d) + Len(me.ofs.buffer)]
           ELSE /\ store' = store
                /\ sess' = [sess EXCEPT ![s].ofs.stage = "written"]
        /\ last' = [NoCall EXCEPT !.op = "write:fwrite", !.s = s, !.bytes = me.ofs.buffer]
        /\ UNCHANGED <<handles, lastWrite>>

\* mPosition = ftell(ofs): where the stream's bytes are, when the file has
\* them; the end of the file as it is now plus the bytes the stream holds,
\* when it has not.
AppendFtell(s) ==
    LET me == sess[s]
        told == IF me.ofs.landed THEN me.ofs.end
                ELSE Len(store[me.id].data) + Len(me.ofs.buffer)
    IN  /\ me.ofs.stage = "written"
        /\ sess' = [sess EXCEPT ![s].pos = told, ![s].ofs.stage = "told"]
        /\ last' = [NoCall EXCEPT !.op = "write:ftell", !.s = s, !.bytes = me.ofs.buffer]
        /\ UNCHANGED <<store, handles, lastWrite>>

\* fclose(ofs); success = (bytes_written == bytes); return: the bytes the
\* stream still holds reach the file, and the call returns.
AppendFclose(s) ==
    LET me == sess[s]
        d == store[me.id].data
    IN  /\ me.ofs.stage = "told"
        /\ store' = IF me.ofs.landed THEN store
                     ELSE [store EXCEPT ![me.id] =
                             File(appendLand(d, me.ofs.end, me.ofs.buffer))]
        /\ sess' = [sess EXCEPT ![s].ofs = NoStream]
        /\ last' = [NoCall EXCEPT !.op = "write", !.s = s, !.ret = TRUE,
                                  !.bytes = me.ofs.buffer]
        /\ UNCHANGED <<handles, lastWrite>>

NextOverlap ==
    \/ \E s \in Sessions, buffer \in Buffers : AppendFopen(s, buffer)
    \/ \E s \in Sessions, through \in BOOLEAN : AppendFwrite(s, through)
    \/ \E s \in Sessions : AppendFtell(s)
    \/ \E s \in Sessions : AppendFclose(s)

SpecOverlap == InitOverlap /\ [][NextOverlap]_vars

\* ------------------------------------------------------------- claims
\* The store a session is bound to.
Bound(s) == store[sess[s].id]

\* The step is a call of op: last' describes the call that made the step.
Called(op) == last'.op = op

\* C1: round trip.  Once a session in truncating WRITE mode has written B and
\* nothing has changed that store since (whatever the stores held before), a
\* read of len(B) bytes by a session bound to it with its cursor at 0 (a fresh
\* session, or one after seek(0, 0)) fills the buffer with exactly B, returns
\* success iff len(B) >= 1 and leaves tell() = len(B).
C1_RoundTrip ==
    [][( /\ Called("read")
         /\ lastWrite.valid
         /\ sess[last'.s].id = lastWrite.id
         /\ tell(last'.s) = 0
         /\ last'.n = Len(lastWrite.bytes) )
       => ( /\ last'.bytes = lastWrite.bytes
            /\ last'.ret = (Len(lastWrite.bytes) >= 1)
            /\ sess'[last'.s].pos = Len(lastWrite.bytes) )]_vars

\* C1's case: a read has just returned the two different bytes a truncating
\* write put into the store.
C1_Witness ==
    /\ last.op = "read"
    /\ lastWrite.valid
    /\ sess[last.s].id = lastWrite.id
    /\ last.n = Len(lastWrite.bytes)
    /\ last.bytes = lastWrite.bytes
    /\ Len(last.bytes) = 2
    /\ last.bytes[1] # last.bytes[2]
    /\ tell(last.s) = 2
    /\ last.ret

\* C2: append law.  A successful write(B) of a session in APPEND mode, from any
\* cursor the session's seeks left it at, leaves the store equal to its prior
\* content C (empty when the store was missing) followed by B, and the cursor at
\* len(C) + len(B), the new size of the store.
C2_AppendLaw ==
    [][( /\ Called("write")
         /\ sess[last'.s].mode = APPEND
         /\ last'.ret )
       => LET s == last'.s
              buffer == last'.bytes
          IN  /\ store'[sess[s].id] = File(Bound(s).data \o buffer)
              /\ sess'[s].pos = Len(Bound(s).data) + Len(buffer)
              /\ sess'[s].pos = getFileSize(store', sess[s].id)]_vars

\* C2's case: an APPEND session whose cursor stood before the end of a
\* non-empty store has appended at least one byte.
C2_Witness ==
    /\ last.op = "write"
    /\ last.ret
    /\ sess[last.s].mode = APPEND
    /\ Len(last.bytes) >= 1
    /\ Len(Bound(last.s).data) > Len(last.bytes)
    /\ last.pos0 < Len(Bound(last.s).data) - Len(last.bytes)

\* C3: a write of n bytes at cursor p by a READ_WRITE session whose store
\* exists leaves every prior byte at an offset outside p .. p+n-1 as it was and
\* never shortens the store.
C3_ReadWriteFrame ==
    [][( /\ Called("write")
         /\ sess[last'.s].mode = READ_WRITE
         /\ Bound(last'.s).present )
       => LET s == last'.s
              old == Bound(s).data
              new == store'[sess[s].id].data
              p == sess[s].pos
              n == Len(last'.bytes)
          IN  /\ store'[sess[s].id].present
              /\ Len(new) >= Len(old)
              /\ \A i \in 1..Len(old) : (i <= p \/ i > p + n) => new[i] = old[i]]_vars

\* C3's case: a READ_WRITE session has written one byte at offset 0 of a store
\* that holds a second byte after it.
C3_Witness ==
    /\ last.op = "write"
    /\ last.ret
    /\ sess[last.s].mode = READ_WRITE
    /\ last.pos0 = 0
    /\ Len(last.bytes) = 1
    /\ Len(Bound(last.s).data) = 2

\* The size of the store at id: the bytes it holds, none when it is missing.
Size(id) == Len(store[id].data)

\* C4: seek clamp.  With target = base + offset (base 0 for origin 0, the
\* cursor for origin -1) and size the store's size when seek is called (0 for a
\* missing store): target > size gives failure and cursor = size, target < 0
\* gives failure and cursor = 0, anything else success and cursor = target.
\* (target > size is written offset > size - base, which stays in range.)
C4_SeekClamp ==
    [][(Called("seek") /\ last'.origin \in {-1, 0})
       => LET s == last'.s
              offset == last'.n
              base == IF last'.origin = -1 THEN tell(s) ELSE 0
              size == Size(sess[s].id)
          IN  IF offset > size - base
              THEN ~last'.ret /\ sess'[s].pos = size
              ELSE IF offset < -base
              THEN ~last'.ret /\ sess'[s].pos = 0
              ELSE last'.ret /\ sess'[s].pos = base + offset]_vars

\* What holds of seek: the clamp of C4 on every call whose base + offset is an
\* S32 value.
SeekClampInRange ==
    [][( /\ Called("seek")
         /\ last'.origin \in {-1, 0}
         /\ last'.n <= INT_MAX - tell(last'.s) )
       => LET s == last'.s
              offset == last'.n
              base == IF last'.origin = -1 THEN tell(s) ELSE 0
              size == Size(sess[s].id)
          IN  IF offset > size - base
              THEN ~last'.ret /\ sess'[s].pos = size
              ELSE IF offset < -base
              THEN ~last'.ret /\ sess'[s].pos = 0
              ELSE last'.ret /\ sess'[s].pos = base + offset]_vars

\* C5: read(buffer, N) of a session in any mode, with cursor p on a store of
\* size s, obtains k = min(N, max(s - p, 0)) bytes, the store's bytes at offsets
\* p .. p+k-1, advances the cursor by k and returns success iff k >= 1.
C5_Read ==
    [][Called("read")
       => LET s == last'.s
              p == tell(s)
              k == Min(last'.n, Max(Size(sess[s].id) - p, 0))
          IN  /\ Len(last'.bytes) = k
              /\ \A i \in 1..k : last'.bytes[i] = Bound(s).data[p + i]
              /\ sess'[s].pos = p + k
              /\ last'.ret = (k >= 1)]_vars

\* C5's case: a session that is not in READ mode has read fewer bytes than it
\* asked for, at least one, from a cursor past the start of the store.
C5_Witness ==
    /\ last.op = "read"
    /\ last.ret
    /\ sess[last.s].mode # READ
    /\ Len(last.bytes) >= 1
    /\ Len(last.bytes) < last.n
    /\ tell(last.s) > Len(last.bytes)

\* C6: cursor invariant.  After each call of a session's own read, write,
\* seek, rename and remove, 0 <= cursor <= the size of the store the session is
\* bound to.
C6_CursorInvariant ==
    \A s \in Sessions : sess[s].live => (0 <= tell(s) /\ tell(s) <= Size(sess[s].id))

\* C7: for every identity, exists is true iff the store is present and holds
\* at least one byte, and size is the store's length, 0 when it is missing: a
\* missing store (never written, or removed) and a present store of length 0
\* both have exists false and size 0.  The calls return these values.
C7_ExistsAndSize ==
    /\ \A id \in Ids :
         /\ getExists(store, id) = (store[id].present /\ Len(store[id].data) > 0)
         /\ getFileSize(store, id) = (IF store[id].present THEN Len(store[id].data) ELSE 0)
         /\ (~store[id].present \/ store[id].data = <<>>)
               => (~getExists(store, id) /\ getFileSize(store, id) = 0)
    /\ last.op = "getExists"
         => last.ret = (store[last.id].present /\ Len(store[last.id].data) > 0)
    /\ last.op = "getFileSize"
         => last.n = (IF store[last.id].present THEN Len(store[last.id].data) ELSE 0)

\* C7's case: exists has just been asked of a present store of length 0, and
\* answered false.
C7_Witness ==
    /\ last.op = "getExists"
    /\ ~last.ret
    /\ store[last.id].present
    /\ store[last.id].data = <<>>

\* C8: rename over existing.  For distinct identities A and B whose stores are
\* both present, a rename of A to B (static or of a session bound to A) whose
\* OS rename succeeds leaves at B exactly what A held, no store at A, and every
\* other store as it was.
C8_RenameOverExisting ==
    [][( /\ (Called("renameFile") \/ Called("rename"))
         /\ last'.id # last'.to
         /\ store[last'.id].present
         /\ store[last'.to].present
         /\ last'.moved )
       => ( /\ store'[last'.to] = store[last'.id]
            /\ ~store'[last'.id].present
            /\ \A o \in Ids \ {last'.id, last'.to} : store'[o] = store[o] )]_vars

\* C8's case: a static rename has moved a non-empty store over a present one
\* while a third store was present.
C8_Witness ==
    /\ last.op = "renameFile"
    /\ last.id # last.to
    /\ last.had
    /\ last.moved
    /\ Len(store[last.to].data) >= 1
    /\ \E o \in Ids \ {last.id, last.to} : store[o].present

\* C9: remove and rename, static and of a session, return success whatever
\* they are given and whatever the OS deletion and the OS rename do; when the
\* OS deletion succeeds, the store is absent afterwards (exists false, size 0).
C9_AlwaysSuccess ==
    [][/\ (Called("removeFile") \/ Called("remove") \/ Called("renameFile")
              \/ Called("rename")) => last'.ret
       /\ (Called("removeFile") /\ RemoveFile(last'.id, TRUE))
            => ( /\ ~store'[last'.id].present
                 /\ ~getExists(store', last'.id)
                 /\ getFileSize(store', last'.id) = 0 )
       /\ (Called("remove") /\ Remove(last'.s, TRUE))
            => ( /\ ~store'[last'.id].present
                 /\ ~getExists(store', last'.id)
                 /\ getFileSize(store', last'.id) = 0 )]_vars

\* C9's case: a static rename whose source is present and whose OS rename
\* failed has returned success.
C9_Witness ==
    /\ last.op = "renameFile"
    /\ last.id # last.to
    /\ ~last.moved
    /\ store[last.id].present
    /\ last.ret

\* C10: the constructor has the disk cache update a file's access time exactly
\* when the mode is READ and a file exists at the resolved path, and that file
\* is the one it updates; no other call has the disk cache update anything.
C10_TouchOnlyOnRead ==
    [][IF Called("construct")
       THEN LET id == sess'[last'.s].id
                mode == sess'[last'.s].mode
            IN  last'.touched = (IF mode = READ /\ store[id].present THEN id ELSE NoId)
       ELSE last'.touched = NoId]_vars

\* C10's case: a READ session has been constructed over an existing store and
\* its file's access time updated.
C10_Witness ==
    /\ last.op = "construct"
    /\ sess[last.s].mode = READ
    /\ last.touched = sess[last.s].id
    /\ Bound(last.s).present

\* C11: missing-store tolerance.  A read of a session whose store is missing
\* (never written, or removed between calls) returns failure, obtains nothing
\* and leaves the cursor and the stores as they were; size reports 0 and exists
\* false for a missing store; every call of a constructed session returns; and
\* a write of the session to its missing store succeeds and creates the store
\* with the bytes written.
C11_MissingStoreTolerance ==
    [][/\ (Called("read") /\ ~Bound(last'.s).present)
            => ( /\ ~last'.ret
                 /\ last'.bytes = <<>>
                 /\ sess'[last'.s].pos = sess[last'.s].pos
                 /\ store' = store )
       /\ (Called("getSize") /\ ~Bound(last'.s).present) => last'.n = 0
       /\ (Called("getExists") /\ ~store[last'.id].present) => ~last'.ret
       /\ (Called("write") /\ ~Bound(last'.s).present)
            => ( /\ last'.ret
                 /\ store'[sess[last'.s].id] = File(last'.bytes) )]_vars

\* C11's case: a session whose cursor is past 0 has asked for bytes of a store
\* that was removed, and the read has failed with the cursor where it was.
C11_Witness ==
    /\ last.op = "read"
    /\ last.n >= 1
    /\ ~last.ret
    /\ ~Bound(last.s).present
    /\ tell(last.s) >= 1

\* C12: no file handle is held across calls.  Every read and every write call,
\* on every path including the one where fseek to the cursor fails, returns
\* with no handle of its own left open.
C12_NoHandleHeld ==
    [][(Called("read") \/ Called("write")) => handles' = handles]_vars

\* C13: after every read call of a session, successful or failed,
\* lastBytesRead() is the number of bytes that call obtained; it is 0 after a
\* read that failed because the store was missing, whatever an earlier read
\* obtained.
C13_LastBytesRead ==
    [][Called("read") => sess'[last'.s].bytesRead = Len(last'.bytes)]_vars

\* C14: a successful write of n bytes at cursor p by a READ_WRITE session
\* leaves the cursor at p + n, when the store exists and when it is missing and
\* created by the write.
C14_ReadWriteCursor ==
    [][( /\ Called("write")
         /\ sess[last'.s].mode = READ_WRITE
         /\ last'.ret )
       => sess'[last'.s].pos = sess[last'.s].pos + Len(last'.bytes)]_vars

\* C15: a successful write(B) of a session in WRITE mode, whatever the store
\* held and wherever the cursor stood, leaves the store equal to B, its size
\* len(B) and the cursor len(B).  (Of two consecutive writes B1, B2 the second
\* is such a write on a store holding B1 with the cursor at len(B1).)
C15_WriteTruncates ==
    [][( /\ Called("write")
         /\ sess[last'.s].mode = WRITE
         /\ last'.ret )
       => LET s == last'.s
          IN  /\ store'[sess[s].id] = File(last'.bytes)
              /\ getFileSize(store', sess[s].id) = Len(last'.bytes)
              /\ sess'[s].pos = Len(last'.bytes)]_vars

\* C15's case: a WRITE session whose cursor stood at 2, after a write of two
\* bytes, has written one byte, and the store holds that byte alone.
C15_Witness ==
    /\ last.op = "write"
    /\ last.ret
    /\ sess[last.s].mode = WRITE
    /\ last.pos0 = 2
    /\ Len(last.bytes) = 1
    /\ Bound(last.s) = File(last.bytes)
    /\ tell(last.s) = 1

\* C16: eof() is computed from the store's size when it is called: for a
\* session with cursor p it returns true iff p >= the current size, so true for
\* a missing store at cursor 0; and when a session stands at the end of its
\* store (eof true) and another session appends at least one byte to that
\* store, eof of the first session is false afterwards although nothing of
\* that session has changed.
C16_EofRequeried ==
    [][/\ Called("eof") => last'.ret = (tell(last'.s) >= Size(sess[last'.s].id))
       /\ \A s \in Sessions :
            ( /\ Called("write")
              /\ last'.s # s
              /\ sess[last'.s].mode = APPEND
              /\ last'.ret
              /\ Len(last'.bytes) >= 1
              /\ sess[s].live
              /\ sess[s].id = sess[last'.s].id
              /\ tell(s) = Size(sess[s].id) )
            => ( /\ eof(s)
                 /\ sess'[s] = sess[s]
                 /\ ~(eof(s))' )]_vars

\* C16's case: another session has just appended to the store at whose end a
\* session past offset 0 stood, and eof of that session is now false.
C16_Witness ==
    /\ last.op = "write"
    /\ last.ret
    /\ sess[last.s].mode = APPEND
    /\ Len(last.bytes) >= 1
    /\ \E s \in Sessions \ {last.s} :
         /\ sess[s].live
         /\ sess[s].id = sess[last.s].id
         /\ tell(s) >= 1
         /\ tell(s) = Size(sess[s].id) - Len(last.bytes)
         /\ ~eof(s)

C17_RelativeSeekOverflow ==
    [][( /\ Called("seek")
         /\ last'.origin = -1
         /\ last'.n > Size(sess[last'.s].id) - tell(last'.s) )
       => ( /\ ~last'.ret
            /\ sess'[last'.s].pos = Size(sess[last'.s].id) )]_vars

\* The stores a rename of old to new leaves when the OS lets the deletion of
\* the destination happen, the OS rename succeeding or not.
RenamedWithDeletion(old, new) ==
    {renameFile(store, old, new, TRUE, mvOk).fs : mvOk \in BOOLEAN}

\* C18: renaming an identity onto itself destroys its store.  For an identity
\* A whose store is present, a rename of A to A (static or of a session bound
\* to A) in which the OS lets the deletion happen deletes the store at A as the
\* destination, the OS rename then finds no source, and the call returns
\* success with no store at A (exists false, size 0) and every other store as
\* it was.
C18_RenameOntoItself ==
    [][( /\ (Called("renameFile") \/ Called("rename"))
         /\ last'.id = last'.to
         /\ store[last'.id].present
         /\ store' \in RenamedWithDeletion(last'.id, last'.to) )
       => ( /\ last'.ret
            /\ ~last'.moved
            /\ ~store'[last'.id].present
            /\ ~getExists(store', last'.id)
            /\ getFileSize(store', last'.id) = 0
            /\ \A o \in Ids \ {last'.id} : store'[o] = store[o] )]_vars

\* C18's case: a static rename of an identity onto itself has returned success
\* and the store that was there is gone.
C18_Witness ==
    /\ last.op = "renameFile"
    /\ last.id = last.to
    /\ last.had
    /\ last.ret
    /\ ~store[last.id].present

\* C19: the destination of a rename is deleted before the source is looked
\* at.  A rename of A to a different identity B whose store is present, in
\* which the OS rename fails (A missing, or the OS refusing) and the OS lets
\* the deletion happen, leaves no store at B and A as it was and returns
\* success; a session's rename binds the session to B all the same, with its
\* cursor unchanged.
C19_DestinationDeletedFirst ==
    [][( /\ (Called("renameFile") \/ Called("rename"))
         /\ last'.id # last'.to
         /\ store[last'.to].present
         /\ ~last'.moved
         /\ store' \in RenamedWithDeletion(last'.id, last'.to) )
       => ( /\ last'.ret
            /\ ~store'[last'.to].present
            /\ store'[last'.id] = store[last'.id]
            /\ Called("rename")
                 => ( /\ sess'[last'.s].id = last'.to
                      /\ sess'[last'.s].pos = sess[last'.s].pos
                      /\ sess'[last'.s].mode = sess[last'.s].mode ) )]_vars

\* C19's case: a session with its cursor past 0 has renamed its store, which
\* stayed where it was, onto a present store, which is gone: the session is
\* bound to the destination with its cursor beyond the size, 0, of that store.
C19_Witness ==
    /\ last.op = "rename"
    /\ last.id # last.to
    /\ last.had
    /\ ~last.moved
    /\ last.ret
    /\ store[last.id].present
    /\ ~store[last.to].present
    /\ sess[last.s].id = last.to
    /\ tell(last.s) >= 1
    /\ tell(last.s) > Size(sess[last.s].id)
====
